---------------------------- MODULE Spec2Model ----------------------------
(***************************************************************************)
(* Model of crawler-bot's price scraper (src/parser.py): the bounded-retry *)
(* loop of PriceScraper.scrape_price, the price-text normalisation of      *)
(* PriceScraper._clean_price, the session life cycle of PriceScraper       *)
(* (__init__ / close / __exit__) and the thread-per-URL fan-out of         *)
(* PriceScraper.concurrent_scrape.                                         *)
(*                                                                         *)
(* A text is a sequence of characters; a character is a one-token string.  *)
(* Characters outside ASCII are written by name: "nbsp" is U+00A0,         *)
(* "nnbsp" U+202F, "sixem" U+2006, "thin" U+2009, "rouble" U+20BD,         *)
(* "euro" U+20AC, "pound" U+00A3, "yen" U+00A5, "rupee" U+20B9,            *)
(* "cyr_r" U+0440, "cyr_u" U+0443, "cyr_b" U+0431, "Acirc" U+00C2.         *)
(***************************************************************************)
EXTENDS Integers, Sequences, FiniteSets, TLC

---------------------------------------------------------------------------
(* Character classes and the string primitives _clean_price relies on.     *)

Digits == {"0", "1", "2", "3", "4", "5", "6", "7", "8", "9"}

\* str.strip() removes Unicode whitespace at both ends
Whitespace == {" ", "nbsp", "nnbsp", "sixem", "thin"}

Separators == {",", "."}

Signs == {"+", "-"}

\* the character class [\d,.] of the number pattern
NumberChars == Digits \cup Separators

DigitValue(c) ==
    CASE c = "0" -> 0 [] c = "1" -> 1 [] c = "2" -> 2 [] c = "3" -> 3
      [] c = "4" -> 4 [] c = "5" -> 5 [] c = "6" -> 6 [] c = "7" -> 7
      [] c = "8" -> 8 [] c = "9" -> 9

RECURSIVE LStrip(_)
LStrip(s) ==
    IF s # <<>> /\ Head(s) \in Whitespace THEN LStrip(Tail(s)) ELSE s

RECURSIVE RStrip(_)
RStrip(s) ==
    IF s # <<>> /\ s[Len(s)] \in Whitespace
    THEN RStrip(SubSeq(s, 1, Len(s) - 1))
    ELSE s

\* str.strip()
Strip(s) == RStrip(LStrip(s))

StartsWith(s, p) == Len(p) <= Len(s) /\ SubSeq(s, 1, Len(p)) = p

\* str.replace(old, ''): every non-overlapping occurrence, left to right
RECURSIVE Remove(_, _)
Remove(s, old) ==
    IF s = <<>> THEN <<>>
    ELSE IF StartsWith(s, old)
         THEN Remove(SubSeq(s, Len(old) + 1, Len(s)), old)
         ELSE <<Head(s)>> \o Remove(Tail(s), old)

\* the keys of the replacements dict, in insertion order (all map to '')
Replacements ==
    << <<"nbsp">>, <<"nnbsp">>, <<"sixem">>, <<" ">>, <<"thin">>,
       <<"rouble">>, <<"euro">>, <<"$">>, <<"pound">>, <<"yen">>, <<"rupee">>,
       <<"cyr_r", ".">>, <<"cyr_r", "cyr_u", "cyr_b", ".">>,
       <<"R", "U", "B">>, <<"E", "U", "R">>, <<"U", "S", "D">>,
       <<"Acirc">> >>

\* for old, new in replacements.items(): cleaned = cleaned.replace(old, new)
RECURSIVE ApplyReplacements(_, _)
ApplyReplacements(s, i) ==
    IF i > Len(Replacements) THEN s
    ELSE ApplyReplacements(Remove(s, Replacements[i]), i + 1)

Contains(s, c) == \E i \in 1..Len(s) : s[i] = c

HasDigit(s) == \E i \in 1..Len(s) : s[i] \in Digits

\* index of the first c in s at or after position i, 0 when there is none
RECURSIVE Find(_, _, _)
Find(s, c, i) ==
    IF i > Len(s) THEN 0
    ELSE IF s[i] = c THEN i ELSE Find(s, c, i + 1)

\* str.split(c): the pieces between the occurrences of c
RECURSIVE Split(_, _)
Split(s, c) ==
    LET k == Find(s, c, 1)
    IN  IF k = 0 THEN <<s>>
        ELSE <<SubSeq(s, 1, k - 1)>> \o Split(SubSeq(s, k + 1, Len(s)), c)

\* the parts searched from the end: the last part holding a digit
RECURSIVE LastWithDigit(_, _, _)
LastWithDigit(parts, i, dflt) ==
    LET k == Len(parts) + 1 - i
    IN  IF i > Len(parts) THEN dflt
        ELSE IF HasDigit(Strip(parts[k])) THEN Strip(parts[k])
             ELSE LastWithDigit(parts, i + 1, dflt)

\* the first stripped part holding a digit, or dflt when no part holds one
RECURSIVE FirstWithDigit(_, _, _)
FirstWithDigit(parts, i, dflt) ==
    IF i > Len(parts) THEN dflt
    ELSE IF HasDigit(Strip(parts[i])) THEN Strip(parts[i])
         ELSE FirstWithDigit(parts, i + 1, dflt)

\* if '-' in cleaned: keep the first '-'-separated part that has a digit
ResolveRange(s) ==
    IF Contains(s, "-") THEN FirstWithDigit(Split(s, "-"), 1, s) ELSE s

\* length of the longest run of [\d,.] starting at position i
RECURSIVE RunLength(_, _)
RunLength(s, i) ==
    IF i <= Len(s) /\ s[i] \in NumberChars THEN 1 + RunLength(s, i + 1) ELSE 0

\* the pattern with [\d,.]* in place of [\d,.]+: a bare sign matches
MatchesAtBareSign(s, i) == s[i] \in NumberChars \/ s[i] \in Signs

\* whether the number pattern matches at position i
MatchesAt(s, i) ==
    \/ s[i] \in NumberChars
    \/ s[i] \in Signs /\ i < Len(s) /\ s[i + 1] \in NumberChars

\* re.search(r'([+-]?[\d,.]+(?:[\.,]\d+)*)', cleaned): the leftmost match,
\* each quantifier greedy; <<>> stands for "no match"
NumberMatch(s) ==
    LET starts == {i \in 1..Len(s) : MatchesAt(s, i)}
    IN  IF starts = {} THEN <<>>
        ELSE LET i == CHOOSE k \in starts : \A j \in starts : k <= j
                 b == IF s[i] \in Signs THEN i + 1 ELSE i
             IN  SubSeq(s, i, b + RunLength(s, b) - 1)

\* max(number_str.rfind(','), number_str.rfind('.')), 1-based; 0 for none
LastSepIndex(s) ==
    LET idx == {i \in 1..Len(s) : s[i] \in Separators}
    IN  IF idx = {} THEN 0 ELSE CHOOSE k \in idx : \A j \in idx : j <= k

\* ''.join(filter(pred, s))
Filter(s, keep) == SelectSeq(s, LAMBDA c : c \in keep)

Drop(s, drop) == SelectSeq(s, LAMBDA c : c \notin drop)

AllDigits(s) == \A i \in 1..Len(s) : s[i] \in Digits

\* re.match(r'^[+-]?(?:\d+|\d*\.\d+)$', s)
IsCanonical(s) ==
    LET body == IF s # <<>> /\ Head(s) \in Signs THEN Tail(s) ELSE s
        dot  == Find(body, ".", 1)
    IN  IF dot = 0
        THEN body # <<>> /\ AllDigits(body)
        ELSE /\ AllDigits(SubSeq(body, 1, dot - 1))
             /\ dot < Len(body)
             /\ AllDigits(SubSeq(body, dot + 1, Len(body)))

\* the grouping test applied whatever the number of separators
ThousandsCaseAnyCount(separators, decimal_part) == Len(decimal_part) = 3

\* the grouping test dropped: the last separator is always the decimal point
ThousandsCaseNever(separators, decimal_part) == FALSE

\* the grouping test with <= 3 in place of == 3
ThousandsCaseUpToThree(separators, decimal_part) ==
    Len(decimal_part) <= 3 /\ Len(separators) = 1

\* if len(decimal_part) == 3 and len(separators) == 1
ThousandsCase(separators, decimal_part) ==
    Len(decimal_part) = 3 /\ Len(separators) = 1

\* the part of _clean_price after the number pattern has matched
NormalizeNumber(number_str) ==
    LET separators   == Filter(number_str, Separators)
        last         == LastSepIndex(number_str)
        integer_part == Drop(SubSeq(number_str, 1, last - 1), Separators)
        decimal_part == Filter(SubSeq(number_str, last + 1, Len(number_str)),
                               Digits)
        joined       == IF decimal_part # <<>>
                        THEN integer_part \o <<".">> \o decimal_part
                        ELSE integer_part
        cleaned_number == IF integer_part = <<>> /\ decimal_part # <<>>
                          THEN <<"0", ".">> \o decimal_part
                          ELSE joined
    IN  IF separators = <<>> THEN number_str
        ELSE IF ThousandsCase(separators, decimal_part)
             THEN integer_part \o decimal_part
        ELSE IF integer_part = <<>> /\ decimal_part = <<>> THEN <<>>
        ELSE IF ~IsCanonical(cleaned_number) THEN <<>>
        ELSE cleaned_number

\* number_str for a text: the run the number pattern matches in the text
\* left by the replacements and the range step; <<>> when nothing matches
MatchedRun(text) == NumberMatch(ResolveRange(ApplyReplacements(Strip(text), 1)))

\* PriceScraper._clean_price: <<>> is the empty string
clean_price(text) ==
    LET cleaned      == ResolveRange(ApplyReplacements(Strip(text), 1))
        number_match == NumberMatch(cleaned)
    IN  IF number_match = <<>> THEN <<>> ELSE NormalizeNumber(number_match)


---------------------------------------------------------------------------
(* float(cleaned_price) and the values scrape_price can return.            *)

None == [kind |-> "None"]

Unset == [kind |-> "unset"]

ValueError == [kind |-> "ValueError"]

RECURSIVE ToInt(_)
ToInt(ds) ==
    IF ds = <<>> THEN 0
    ELSE 10 * ToInt(SubSeq(ds, 1, Len(ds) - 1)) + DigitValue(ds[Len(ds)])

RECURSIVE StripTrailingZeros(_)
StripTrailingZeros(ds) ==
    IF ds # <<>> /\ ds[Len(ds)] = "0"
    THEN StripTrailingZeros(SubSeq(ds, 1, Len(ds) - 1))
    ELSE ds

\* float(s) for a decimal literal without exponent: the number m / 10^e with
\* e minimal, so that "1999.00" and "1999" are the same value; any other
\* string (the empty one included) raises ValueError
float(s) ==
    LET neg  == s # <<>> /\ Head(s) = "-"
        body == IF s # <<>> /\ Head(s) \in Signs THEN Tail(s) ELSE s
        dot  == Find(body, ".", 1)
        ip   == IF dot = 0 THEN body ELSE SubSeq(body, 1, dot - 1)
        fp   == IF dot = 0 THEN <<>>
                ELSE StripTrailingZeros(SubSeq(body, dot + 1, Len(body)))
        mag  == ToInt(ip \o fp)
    IN  IF ~IsCanonical(s) THEN ValueError
        ELSE [kind |-> "float", m |-> IF neg THEN 0 - mag ELSE mag,
              e |-> Len(fp)]

---------------------------------------------------------------------------
(* Bounds and inputs.                                                      *)

\* largest batch handed to concurrent_scrape
MaxRequests == 2

\* largest retries argument tried on a single scrape_price call
MaxRetries == 5

\* scrape_price(..., retries: int = 3)
DefaultRetries == 3

Urls == {"a", "b"}

Xpaths == {"//span"}

\* one item of urls_xpaths
Requests == [url : Urls, xpath : Xpaths]

\* texts the located element may show
TextPrice == <<"1", " ", "9", "9", "9", ",", "0", "0", " ", "rouble">>

TextRange == <<"1", "0", "0", "-", "1", "5", "0">>

TextNA == <<"N", "/", "A">>

PageTexts == {TextPrice, TextRange, TextNA}

\* the sequences over S of length at most n
RECURSIVE SeqsUpTo(_, _)
SeqsUpTo(S, n) ==
    IF n = 0 THEN {<<>>}
    ELSE LET shorter == SeqsUpTo(S, n - 1)
         IN  shorter \cup {Append(s, x) : s \in shorter, x \in S}

\* longest text of the bounded alphabet handed to _clean_price
MaxTextLen == 5

\* characters the bounded texts are made of: two digits, both separators
\* and both signs (the hyphen is also the range mark)
Alphabet == {"1", "2", ",", ".", "-", "+"}

\* price texts of the kinds the site shows, longer than MaxTextLen
SampleTexts ==
    { <<"1", ".", "2", "3", "4">>,
      <<"1", ",", "2", "3", "4">>,
      <<"1", ",", "2", "3", "4", ".", "5", "6">>,
      <<"1", ".", "2", "3", "4", ",", "5", "6">>,
      <<"1", "2", "3", "4", ",", "5", "6">>,
      <<".", "9", "5">>,
      <<"1", ",", "2", "3", "4", ".", "5", "6", "7">>,
      <<"1", "5", " ", "cyr_r", "cyr_u", "cyr_b", ".">>,
      <<"$", "1", "2", ".", "5", "0", "-", "$", "1", "5">>,
      <<" ", "1", "5", " ", "-", " ", "2", "0", "nbsp", "euro", " ">> }

\* the texts _clean_price is applied to
ParseTexts == SeqsUpTo(Alphabet, MaxTextLen) \cup SampleTexts \cup PageTexts

\* what _take_screenshot can do: os.makedirs raises (outside its try),
\* save_screenshot raises (caught and logged), or the file is written
ShotOutcomes == {"DirError", "SaveError", "Saved"}

---------------------------------------------------------------------------
(* State.                                                                  *)

VARIABLES
    requests,     \* urls_xpaths, the argument of concurrent_scrape
    retries,      \* the retries argument of the scrape_price calls
    cs_pc,        \* concurrent_scrape: "running", "returned", "raised";
                  \* "direct" when scrape_price is called on its own
    started,      \* number of threads started by the first for loop
    joined,       \* number of threads joined by the second for loop
    callerError,  \* exception concurrent_scrape raised to its caller
    results,      \* the results dict: url -> price or None
    writers,      \* url -> the workers that executed results[url] = price
    pc,           \* per worker: "unstarted", "init", "loop", "returned",
                  \* "raised", "done", "crashed"
    driver,       \* per worker: "none", "running", "quit"
    attempt,      \* per worker: the local variable attempt
    navs,         \* per worker: number of driver.get(url) calls
    ret,          \* per worker: what scrape_price returned
    sleeps,       \* per worker: the backoff delays slept, in order
    shots,        \* per worker: number of _take_screenshot calls
    fault,        \* per worker: the fault that ended the worker, or "none"
    parse,        \* the text under normalisation: the locals price_text,
                  \* number_str, cleaned_price and price_value, the result of
                  \* a second _clean_price pass, and a position pc
    db,           \* the sites table, and the arguments and the return value
                  \* of the last save_to_db call
    bot,          \* process_excel_file: its position, the uploaded table,
                  \* the replies sent and the work done
    capture       \* the screenshots directory: the clock (time.time() in
                  \* whole seconds), the files in the directory, the number
                  \* of save_screenshot calls that succeeded, and per worker
                  \* the time its time.sleep ends

scraperVars ==
    <<requests, retries, cs_pc, started, joined, callerError, results,
      writers, pc, driver, attempt, navs, ret, sleeps, shots, fault>>

vars == <<parse, db, bot, capture, scraperVars>>

mainVars == <<cs_pc, started, joined, callerError>>

scrapeVars == <<attempt, navs, ret, sleeps, shots>>

Workers == 1..Len(requests)

\* no text is being normalised
ParseIdle ==
    [pc |-> "idle", price_text |-> <<>>, number_str |-> <<>>,
     cleaned_price |-> <<>>, price_value |-> Unset, recleaned |-> <<>>]

\* the sites table as init_db creates it, before any save_to_db call
DbCreated ==
    [table |-> <<>>, calls |-> 0, user_id |-> 0, dataframe |-> <<>>,
     ret |-> "none"]

\* no file has been uploaded
BotIdle ==
    [pc |-> "idle", columns |-> {}, rows |-> 0, replies |-> <<>>,
     sessions |-> 0, scraped |-> 0, saves |-> 0]

\* an empty screenshots directory at time 0
NoCaptures == [clock |-> 0, files |-> {}, written |-> 0, wake |-> <<>>]

Terminated == {"done", "crashed"}

url(w) == requests[w].url

\* empty function, the dict {}
EmptyMap == [u \in {} |-> None]

\* d[k] = v
Put(d, k, v) == [u \in DOMAIN d \cup {k} |-> IF u = k THEN v ELSE d[u]]

WorkerInit(reqs) ==
    /\ pc      = [w \in 1..Len(reqs) |-> "unstarted"]
    /\ driver  = [w \in 1..Len(reqs) |-> "none"]
    /\ attempt = [w \in 1..Len(reqs) |-> 0]
    /\ navs    = [w \in 1..Len(reqs) |-> 0]
    /\ ret     = [w \in 1..Len(reqs) |-> Unset]
    /\ sleeps  = [w \in 1..Len(reqs) |-> <<>>]
    /\ shots   = [w \in 1..Len(reqs) |-> 0]
    /\ fault   = [w \in 1..Len(reqs) |-> "none"]

\* concurrent_scrape entered: results = {}, threads = []
Init ==
    /\ requests \in SeqsUpTo(Requests, MaxRequests)
    /\ parse = ParseIdle
    /\ db = DbCreated
    /\ capture = NoCaptures
    /\ bot = BotIdle
    /\ retries = DefaultRetries
    /\ cs_pc = "running"
    /\ started = 0
    /\ joined = 0
    /\ callerError = "none"
    /\ results = EmptyMap
    /\ writers = [u \in Urls |-> {}]
    /\ WorkerInit(requests)

---------------------------------------------------------------------------
(* PriceScraper.__init__, entered by the with statement of scrape_task.    *)

\* a construction fault that tears down every thread still running
ConstructEngineFailsAbortsBatch(w) ==
    /\ pc' = [v \in Workers |->
                 IF v = w \/ pc[v] \in {"init", "loop", "returned", "raised"}
                 THEN "crashed" ELSE pc[v]]
    /\ fault' = [fault EXCEPT ![w] = "engine_start"]
    /\ UNCHANGED driver

\* webdriver.Chrome(options) raises: no engine was started
ConstructEngineFails(w) ==
    /\ pc' = [pc EXCEPT ![w] = "crashed"]
    /\ fault' = [fault EXCEPT ![w] = "engine_start"]
    /\ UNCHANGED driver

\* the engine is running, then stealth(...) or implicitly_wait raises:
\* __init__ raises, the with body and __exit__ never run
ConstructSetupFails(w) ==
    /\ driver' = [driver EXCEPT ![w] = "running"]
    /\ pc' = [pc EXCEPT ![w] = "crashed"]
    /\ fault' = [fault EXCEPT ![w] = "session_setup"]

ConstructOk(w) ==
    /\ driver' = [driver EXCEPT ![w] = "running"]
    /\ pc' = [pc EXCEPT ![w] = "loop"]
    /\ UNCHANGED fault

Construct(w) ==
    /\ pc[w] = "init"
    /\ \/ ConstructEngineFails(w)
       \/ ConstructSetupFails(w)
       \/ ConstructOk(w)
    /\ UNCHANGED <<parse, db, bot, capture>>
    /\ UNCHANGED <<requests, retries, mainVars, results, writers, scrapeVars>>

---------------------------------------------------------------------------
(* PriceScraper.scrape_price: one iteration of the while loop.             *)

\* a backoff that grows by a fixed step instead of doubling
BackoffLinear(k) == 2 * k

\* time.sleep(2 ** attempt), attempt already incremented
Backoff(k) == 2 ^ k

\* the parsed value is stored but the loop is not left
AttemptSucceedsKeepsLooping(w, price_value) ==
    /\ navs' = [navs EXCEPT ![w] = @ + 1]
    /\ ret' = [ret EXCEPT ![w] = price_value]
    /\ UNCHANGED <<pc, attempt, sleeps, shots, fault>>

\* lines 96-99: the text parsed to price_value, return price_value
AttemptSucceeds(w, price_value) ==
    /\ navs' = [navs EXCEPT ![w] = @ + 1]
    /\ ret' = [ret EXCEPT ![w] = price_value]
    /\ pc' = [pc EXCEPT ![w] = "returned"]
    /\ UNCHANGED <<attempt, sleeps, shots, fault>>

\* lines 101-105: the except handler, then the loop test and return None
AttemptFails(w, shot) ==
    LET k == attempt[w] + 1
    IN  /\ navs' = [navs EXCEPT ![w] = @ + 1]
        /\ attempt' = [attempt EXCEPT ![w] = k]
        /\ shots' = [shots EXCEPT ![w] = @ + 1]
        /\ IF shot = "DirError"
           THEN /\ pc' = [pc EXCEPT ![w] = "raised"]
                /\ fault' = [fault EXCEPT ![w] = "screenshot_dir"]
                /\ UNCHANGED <<sleeps, ret>>
           ELSE /\ sleeps' = [sleeps EXCEPT ![w] = Append(@, Backoff(k))]
                /\ pc' = [pc EXCEPT ![w] =
                              IF k < retries THEN "loop" ELSE "returned"]
                /\ ret' = [ret EXCEPT ![w] = IF k < retries THEN @ ELSE None]
                /\ UNCHANGED fault

\* the try body raises before any text is read: driver.get (navigation
\* error), execute_script (engine failure) or WebDriverWait.until, whose
\* TimeoutException covers an element never found and a text that stays
\* empty; every one of them lands in the same except handler
AttemptEngineFault(w) ==
    \E shot \in ShotOutcomes : AttemptFails(w, shot)

\* cleaned_price = self._clean_price(price_text); float(cleaned_price)
ParsePrice == [text \in PageTexts |-> float(clean_price(text))]

\* the try body reads price_text; _clean_price and float decide
AttemptReadsText(w) ==
    \E text \in PageTexts :
        LET price_value == ParsePrice[text]
        IN  IF price_value.kind = "ValueError"
            THEN \E shot \in ShotOutcomes : AttemptFails(w, shot)
            ELSE AttemptSucceeds(w, price_value)

Attempt(w) ==
    /\ pc[w] = "loop"
    /\ attempt[w] < retries
    /\ \/ AttemptEngineFault(w)
       \/ AttemptReadsText(w)
    /\ UNCHANGED <<parse, db, bot, capture>>
    /\ UNCHANGED <<requests, retries, mainVars, results, writers, driver>>

---------------------------------------------------------------------------
(* scrape_task after scrape_price: results[url] = price, then __exit__.    *)

\* results[url] = price; leaving the with block calls close()
TaskRecords(w) ==
    /\ pc[w] = "returned"
    /\ results' = Put(results, url(w), ret[w])
    /\ writers' = [writers EXCEPT ![url(w)] = @ \cup {w}]
    /\ driver' = [driver EXCEPT ![w] = "quit"]
    /\ pc' = [pc EXCEPT ![w] = "done"]
    /\ UNCHANGED <<parse, db, bot, capture>>
    /\ UNCHANGED <<requests, retries, mainVars, scrapeVars, fault>>

\* scrape_price raised: __exit__ calls close(), the exception ends the thread
TaskUnwinds(w) ==
    /\ pc[w] = "raised"
    /\ driver' = [driver EXCEPT ![w] = "quit"]
    /\ pc' = [pc EXCEPT ![w] = "crashed"]
    /\ UNCHANGED <<parse, db, bot, capture>>
    /\ UNCHANGED <<requests, retries, mainVars, results, writers, scrapeVars,
                   fault>>

---------------------------------------------------------------------------
(* PriceScraper.concurrent_scrape: the calling thread.                     *)

\* thread.start() in the first for loop
StartThread ==
    /\ cs_pc = "running"
    /\ started < Len(requests)
    /\ started' = started + 1
    /\ pc' = [pc EXCEPT ![started + 1] = "init"]
    /\ UNCHANGED <<parse, db, bot, capture>>
    /\ UNCHANGED <<requests, retries, cs_pc, joined, callerError, results,
                   writers, driver, scrapeVars, fault>>

\* thread.start() raises RuntimeError (no thread can be created): it leaves
\* concurrent_scrape, and the threads already started are not joined
StartFails ==
    /\ cs_pc = "running"
    /\ started < Len(requests)
    /\ cs_pc' = "raised"
    /\ callerError' = "RuntimeError"
    /\ UNCHANGED <<parse, db, bot, capture>>
    /\ UNCHANGED <<requests, retries, started, joined, results, writers, pc,
                   driver, scrapeVars, fault>>

\* a join that does not wait for the thread to end
JoinThreadNoWait ==
    /\ cs_pc = "running"
    /\ started = Len(requests)
    /\ joined < Len(requests)
    /\ joined' = joined + 1
    /\ UNCHANGED <<parse, db, bot, capture>>
    /\ UNCHANGED <<requests, retries, cs_pc, started, callerError, results,
                   writers, pc, driver, scrapeVars, fault>>

\* thread.join() in the second for loop: returns once the thread has ended
JoinThread ==
    /\ cs_pc = "running"
    /\ started = Len(requests)
    /\ joined < Len(requests)
    /\ pc[joined + 1] \in Terminated
    /\ joined' = joined + 1
    /\ UNCHANGED <<parse, db, bot, capture>>
    /\ UNCHANGED <<requests, retries, cs_pc, started, callerError, results,
                   writers, pc, driver, scrapeVars, fault>>

\* return results
Return ==
    /\ cs_pc = "running"
    /\ started = Len(requests)
    /\ joined = Len(requests)
    /\ cs_pc' = "returned"
    /\ UNCHANGED <<parse, db, bot, capture>>
    /\ UNCHANGED <<requests, retries, started, joined, callerError, results,
                   writers, pc, driver, scrapeVars, fault>>

Next ==
    \/ StartThread
    \/ StartFails
    \/ JoinThread
    \/ Return
    \/ \E w \in Workers : Construct(w)
    \/ \E w \in Workers : Attempt(w)
    \/ \E w \in Workers : TaskRecords(w)
    \/ \E w \in Workers : TaskUnwinds(w)

\* a batch handed to concurrent_scrape
Spec == Init /\ [][Next]_vars

---------------------------------------------------------------------------
(* One scrape_price call on a constructed scraper, any retries >= 1.       *)

InitScrape ==
    /\ requests \in {<<r>> : r \in Requests}
    /\ parse = ParseIdle
    /\ db = DbCreated
    /\ capture = NoCaptures
    /\ bot = BotIdle
    /\ retries \in 1..MaxRetries
    /\ cs_pc = "direct"
    /\ started = 0
    /\ joined = 0
    /\ callerError = "none"
    /\ results = EmptyMap
    /\ writers = [u \in Urls |-> {}]
    /\ pc      = [w \in {1} |-> "loop"]
    /\ driver  = [w \in {1} |-> "running"]
    /\ attempt = [w \in {1} |-> 0]
    /\ navs    = [w \in {1} |-> 0]
    /\ ret     = [w \in {1} |-> Unset]
    /\ sleeps  = [w \in {1} |-> <<>>]
    /\ shots   = [w \in {1} |-> 0]
    /\ fault   = [w \in {1} |-> "none"]

NextScrape == \E w \in Workers : Attempt(w)

SpecScrape == InitScrape /\ [][NextScrape]_vars

---------------------------------------------------------------------------
(* One call of scrape_price on a page whose element text holds no digit.   *)

\* element texts without a digit: "N/A" and the shorter texts of separators
\* and signs
NoDigitTexts == SeqsUpTo(Alphabet \ Digits, Len(TextNA) - 1) \cup {TextNA}

\* self._clean_price(price_text) for each of them
CleanNoDigitText == [text \in NoDigitTexts |-> clean_price(text)]

\* lines 72-105 for an attempt that reads a text without a digit: the text
\* is cleaned and handed to float, and the attempt ends as float decides
AttemptReadsNoDigitText(w) ==
    /\ pc[w] = "loop"
    /\ attempt[w] < retries
    /\ \E text \in NoDigitTexts :
           LET cleaned_price == CleanNoDigitText[text]
               price_value   == float(cleaned_price)
           IN  /\ parse' = [ParseIdle EXCEPT
                               !.pc = "parsed",
                               !.price_text = text,
                               !.cleaned_price = cleaned_price,
                               !.price_value = price_value]
               /\ IF price_value = ValueError
                  THEN \E shot \in ShotOutcomes : AttemptFails(w, shot)
                  ELSE AttemptSucceeds(w, price_value)
    /\ UNCHANGED <<db, bot, capture>>
    /\ UNCHANGED <<requests, retries, mainVars, results, writers, driver>>

NextUnparseable == \E w \in Workers : AttemptReadsNoDigitText(w)

SpecUnparseable == InitScrape /\ [][NextUnparseable]_vars

---------------------------------------------------------------------------
(* _clean_price and float applied to one element text (lines 96-97), and   *)
(* _clean_price applied once more to its own result.                       *)

\* no batch and no scrape_price call is in progress
ScraperIdle ==
    /\ requests = <<>>
    /\ retries = DefaultRetries
    /\ cs_pc = "idle"
    /\ started = 0
    /\ joined = 0
    /\ callerError = "none"
    /\ results = EmptyMap
    /\ writers = [u \in Urls |-> {}]
    /\ WorkerInit(<<>>)

\* price_text has been read from the element
InitParse ==
    /\ ScraperIdle
    /\ db = DbCreated
    /\ capture = NoCaptures
    /\ bot = BotIdle
    /\ \E text \in ParseTexts :
           parse = [ParseIdle EXCEPT !.pc = "read", !.price_text = text]

\* cleaned_price = self._clean_price(price_text); float(cleaned_price)
CleanAndParse ==
    /\ parse.pc = "read"
    /\ parse' = [parse EXCEPT
                    !.pc = "parsed",
                    !.number_str = MatchedRun(parse.price_text),
                    !.cleaned_price = clean_price(parse.price_text),
                    !.price_value = float(clean_price(parse.price_text))]
    /\ UNCHANGED <<db, bot, capture, scraperVars>>

\* _clean_price applied to a non-empty result of _clean_price
CleanAgain ==
    /\ parse.pc = "parsed"
    /\ parse.cleaned_price # <<>>
    /\ parse' = [parse EXCEPT
                    !.pc = "recleaned",
                    !.recleaned = clean_price(parse.cleaned_price)]
    /\ UNCHANGED <<db, bot, capture, scraperVars>>

NextParse == CleanAndParse \/ CleanAgain

SpecParse == InitParse /\ [][NextParse]_vars

---------------------------------------------------------------------------
(* The scrape_price calls of the threads of one concurrent_scrape run,     *)
(* with the clock that names the screenshot files.                         *)

\* last clock second followed
MaxClock == 6

\* f"error_{int(time.time())}" at clock second t, the file name without the
\* directory and ".png"
ScreenshotName(t) == <<"error", t>>

\* lines 101-105 at the current clock second, for a worker that is not
\* sleeping: the handler names the screenshot after the second, a saved
\* screenshot is a file of that name (an existing one is overwritten), and
\* the worker sleeps Backoff(attempt) seconds
FailedAttemptAt(w) ==
    /\ pc[w] = "loop"
    /\ attempt[w] < retries
    /\ capture.clock >= capture.wake[w]
    /\ \E shot \in ShotOutcomes :
           /\ AttemptFails(w, shot)
           /\ capture' =
                  [capture EXCEPT
                      !.files = IF shot = "Saved"
                                THEN @ \cup {ScreenshotName(capture.clock)}
                                ELSE @,
                      !.written = IF shot = "Saved" THEN @ + 1 ELSE @,
                      !.wake[w] = IF shot = "DirError" THEN @
                                  ELSE capture.clock + Backoff(attempt[w] + 1)]
    /\ UNCHANGED <<parse, db, bot>>
    /\ UNCHANGED <<requests, retries, mainVars, results, writers, driver>>

\* lines 72-99 for a worker that is not sleeping: the text parses
SuccessfulAttemptAt(w) ==
    /\ pc[w] = "loop"
    /\ attempt[w] < retries
    /\ capture.clock >= capture.wake[w]
    /\ \E text \in PageTexts :
           /\ ParsePrice[text].kind = "float"
           /\ AttemptSucceeds(w, ParsePrice[text])
    /\ UNCHANGED <<parse, db, bot, capture>>
    /\ UNCHANGED <<requests, retries, mainVars, results, writers, driver>>

\* a second passes
Tick ==
    /\ capture.clock < MaxClock
    /\ capture' = [capture EXCEPT !.clock = @ + 1]
    /\ UNCHANGED <<parse, db, bot, scraperVars>>

\* every thread of the run has been started and is in its scrape_price call
InitCapture ==
    /\ requests \in SeqsUpTo(Requests, MaxRequests) \ {<<>>}
    /\ retries = DefaultRetries
    /\ cs_pc = "running"
    /\ started = Len(requests)
    /\ joined = 0
    /\ callerError = "none"
    /\ results = EmptyMap
    /\ writers = [u \in Urls |-> {}]
    /\ pc      = [w \in 1..Len(requests) |-> "loop"]
    /\ driver  = [w \in 1..Len(requests) |-> "running"]
    /\ attempt = [w \in 1..Len(requests) |-> 0]
    /\ navs    = [w \in 1..Len(requests) |-> 0]
    /\ ret     = [w \in 1..Len(requests) |-> Unset]
    /\ sleeps  = [w \in 1..Len(requests) |-> <<>>]
    /\ shots   = [w \in 1..Len(requests) |-> 0]
    /\ fault   = [w \in 1..Len(requests) |-> "none"]
    /\ parse = ParseIdle
    /\ db = DbCreated
    /\ bot = BotIdle
    /\ capture = [NoCaptures EXCEPT !.wake = [w \in 1..Len(requests) |-> 0]]

NextCapture ==
    \/ \E w \in Workers : FailedAttemptAt(w)
    \/ \E w \in Workers : SuccessfulAttemptAt(w)
    \/ Tick

SpecCapture == InitCapture /\ [][NextCapture]_vars

---------------------------------------------------------------------------
(* DatabaseHandler.save_to_db on the sites table (src/database.py).        *)

\* number of save_to_db calls followed
MaxSaves == 2

\* largest number of rows of a data frame
MaxFrameRows == 2

\* user ids (Telegram ids: positive integers)
Users == {1, 2}

Titles == {"t1", "t2"}

\* the data frames handed to save_to_db: rows with a url and a title
Frames == SeqsUpTo([url : Urls, title : Titles], MaxFrameRows)

\* the urls of the rows of a frame or of a table
UrlsOf(rows) == {rows[i].url : i \in 1..Len(rows)}

\* SELECT url FROM sites WHERE user_id = ? AND url IN (urls)
ExistingUrls(table, user_id, urls) ==
    {table[i].url :
         i \in {j \in 1..Len(table) :
                    table[j].user_id = user_id /\ table[j].url \in urls}}

\* UNIQUE(user_id, url) would reject the insertion of rows[i] after the
\* insertion of rows[1..i-1] into table
ViolatesUnique(table, rows, i) ==
    \/ \E j \in 1..Len(table) :
           table[j].user_id = rows[i].user_id /\ table[j].url = rows[i].url
    \/ \E j \in 1..(i - 1) :
           rows[j].user_id = rows[i].user_id /\ rows[j].url = rows[i].url

\* new_data.to_sql('sites', conn, if_exists='append'): one INSERT of all the
\* rows in one transaction; a row that violates UNIQUE(user_id, url) raises
\* IntegrityError, the transaction is rolled back and save_to_db returns
\* False from its except clause
ToSql(table, rows) ==
    IF \E i \in 1..Len(rows) : ViolatesUnique(table, rows, i)
    THEN [table |-> table, ret |-> "False"]
    ELSE [table |-> table \o rows, ret |-> "True"]

\* save_to_db(user_id, dataframe)
SaveToDb(user_id, dataframe) ==
    LET rows     == [i \in 1..Len(dataframe) |->
                        [user_id |-> user_id, url |-> dataframe[i].url,
                         title |-> dataframe[i].title]]
        existing_urls == ExistingUrls(db.table, user_id, UrlsOf(dataframe))
        new_data == SelectSeq(rows, LAMBDA r : r.url \notin existing_urls)
        saved    == ToSql(db.table, new_data)
    IN  /\ db.calls < MaxSaves
        /\ db' = [table     |-> IF new_data = <<>> THEN db.table
                                ELSE saved.table,
                  calls     |-> db.calls + 1,
                  user_id   |-> user_id,
                  dataframe |-> dataframe,
                  ret       |-> IF new_data = <<>> THEN "True" ELSE saved.ret]
        /\ UNCHANGED <<parse, bot, capture, scraperVars>>

InitDb ==
    /\ ScraperIdle
    /\ parse = ParseIdle
    /\ bot = BotIdle
    /\ db = DbCreated
    /\ capture = NoCaptures

NextDb == \E user_id \in Users : \E dataframe \in Frames :
              SaveToDb(user_id, dataframe)

SpecDb == InitDb /\ [][NextDb]_vars

---------------------------------------------------------------------------
(* PriceBot.process_excel_file on one uploaded file (src/bot.py).          *)

\* largest number of rows of the uploaded table
MaxRows == 2

\* column names an uploaded table can have
ColumnNames == {"title", "url", "xpath", "price"}

\* the validation without the xpath column
RequiredColumnsNoXpath == {"title", "url"}

\* required_columns = {'title', 'url', 'xpath'}
RequiredColumns == {"title", "url", "xpath"}

\* await update.message.reply_text(text)
Reply(text) == Append(bot.replies, text)

\* lines 80-82: the "processing" reply, then pd.read_excel returns the table
ReadExcel ==
    /\ bot.pc = "uploaded"
    /\ bot' = [bot EXCEPT !.pc = "read", !.replies = Reply("processing")]
    /\ UNCHANGED <<parse, db, capture, scraperVars>>

\* lines 80-82, 101-106: pd.read_excel raises; a ValueError is answered
\* with the format error, any other exception with the processing error
ReadExcelFails ==
    /\ bot.pc = "uploaded"
    /\ \E error \in {"format_error", "processing_error"} :
           bot' = [bot EXCEPT !.pc = "unreadable",
                              !.replies = Reply("processing") \o <<error>>]
    /\ UNCHANGED <<parse, db, capture, scraperVars>>

\* lines 85-86, 101-103: required columns missing: raise ValueError,
\* answered with the format error
ValidateRejects ==
    /\ bot.pc = "read"
    /\ ~(RequiredColumns \subseteq bot.columns)
    /\ bot' = [bot EXCEPT !.pc = "rejected",
                          !.replies = Reply("format_error")]
    /\ UNCHANGED <<parse, db, capture, scraperVars>>

\* line 85: the required columns are there
ValidateAccepts ==
    /\ bot.pc = "read"
    /\ RequiredColumns \subseteq bot.columns
    /\ bot' = [bot EXCEPT !.pc = "validated"]
    /\ UNCHANGED <<parse, db, capture, scraperVars>>

\* line 89: with PriceScraper() as scraper
CreateSession ==
    /\ bot.pc = "validated"
    /\ bot' = [bot EXCEPT !.pc = "scraping", !.sessions = @ + 1]
    /\ UNCHANGED <<parse, db, capture, scraperVars>>

\* lines 89, 104-106: PriceScraper() raises before an engine exists
CreateSessionFails ==
    /\ bot.pc = "validated"
    /\ bot' = [bot EXCEPT !.pc = "failed",
                          !.replies = Reply("processing_error")]
    /\ UNCHANGED <<parse, db, capture, scraperVars>>

\* lines 111-117: one row of process_dataframe: scrape_price is called, and
\* what it returns or raises becomes a price or None
ScrapeRow ==
    /\ bot.pc = "scraping"
    /\ bot.scraped < bot.rows
    /\ bot' = [bot EXCEPT !.scraped = @ + 1]
    /\ UNCHANGED <<parse, db, capture, scraperVars>>

\* lines 92-99: after the last row: the "done" reply, send_results, and
\* db_handler.save_to_db(user.id, df)
ReportAndSave ==
    /\ bot.pc = "scraping"
    /\ bot.scraped = bot.rows
    /\ \E summary \in {"results", "no_prices"} :
           bot' = [bot EXCEPT !.pc = "done",
                              !.replies = Reply("done") \o <<summary>>,
                              !.saves = @ + 1]
    /\ UNCHANGED <<parse, db, capture, scraperVars>>

\* a file has been downloaded; columns and rows are those of its table
InitBot ==
    /\ ScraperIdle
    /\ parse = ParseIdle
    /\ db = DbCreated
    /\ capture = NoCaptures
    /\ \E columns \in SUBSET ColumnNames : \E rows \in 0..MaxRows :
           bot = [BotIdle EXCEPT !.pc = "uploaded", !.columns = columns,
                                 !.rows = rows]

NextBot ==
    \/ ReadExcel
    \/ ReadExcelFails
    \/ ValidateRejects
    \/ ValidateAccepts
    \/ CreateSession
    \/ CreateSessionFails
    \/ ScrapeRow
    \/ ReportAndSave

SpecBot == InitBot /\ [][NextBot]_vars

---------------------------------------------------------------------------
(* Properties of scrape_price (checked under SpecScrape).                  *)

\* the scrape_price call of worker w is over
CallOver(w) == pc[w] \in {"returned", "raised", "done", "crashed"} /\ navs[w] > 0

\* C1: when every attempt of a scrape_price call with retries = n fails, the
\* call makes exactly n navigations and then returns None.
C1_ExactlyNAttempts ==
    \A w \in Workers :
        (CallOver(w) /\ ret[w].kind # "float")
            => (navs[w] = retries /\ ret[w] = None)

\* C2: scrape_price never ends by raising to its caller: it returns a parsed
\* price or None.
C2_NeverRaises ==
    \A w \in Workers :
        /\ pc[w] # "raised"
        /\ CallOver(w) => ret[w].kind \in {"float", "None"}

\* C3: the first attempt whose text parses ends the call with that value: it
\* is navigation number (failed attempts + 1), the last one, and it is
\* followed by no screenshot and no backoff sleep (one of each per failed
\* attempt, none for the successful one).
C3_SuccessIsTerminal ==
    \A w \in Workers :
        ret[w].kind = "float"
            => /\ pc[w] \in {"returned", "done"}
               /\ \E text \in PageTexts : ret[w] = float(clean_price(text))
               /\ navs[w] = attempt[w] + 1
               /\ shots[w] = attempt[w]
               /\ Len(sleeps[w]) = attempt[w]

\* a call that succeeded on its third attempt, after two failed ones
C3_Witness ==
    \E w \in Workers :
        /\ pc[w] = "returned"
        /\ ret[w].kind = "float"
        /\ attempt[w] = 2
        /\ navs[w] = 3

\* C4: the k-th backoff sleep of a call follows failed attempt k and lasts
\* exactly 2^k, so the delays of one call are strictly increasing.
C4_BackoffDoubles ==
    \A w \in Workers :
        /\ Len(sleeps[w]) <= attempt[w]
        /\ \A k \in 1..Len(sleeps[w]) : sleeps[w][k] = 2 ^ k
        /\ \A i, j \in 1..Len(sleeps[w]) : i < j => sleeps[w][i] < sleeps[w][j]

\* a call that has slept three times: 2, 4, 8
C4_Witness ==
    \E w \in Workers : Len(sleeps[w]) >= 3 /\ sleeps[w][3] = 8

\* C11: a failure to capture the diagnostic screenshot, at any step of
\* _take_screenshot, is swallowed: every failed attempt leaves the call in
\* the state it reaches when the capture succeeds (same attempt count, same
\* backoff, same position in the loop, same return value).
C11_ScreenshotFailureSwallowed ==
    [][\A w \in Workers :
           attempt'[w] # attempt[w] => AttemptFails(w, "Saved")]_vars

\* C20: a backoff sleep follows a failed attempt k only when k < retries;
\* when attempt number retries fails, None is returned without a further
\* sleep.
C20_NoSleepAfterLastAttempt ==
    \A w \in Workers :
        /\ Len(sleeps[w]) < retries
        /\ ret[w] = None => Len(sleeps[w]) = retries - 1

---------------------------------------------------------------------------
(* Properties of concurrent_scrape (checked under Spec).                   *)

ConstructionFaults == {"engine_start", "session_setup"}

\* C5: concurrent_scrape returns only after every worker thread has ended,
\* and the result map is never written once it has been returned.
C5_JoinBarrier ==
    /\ [](cs_pc = "returned" => \A w \in Workers : pc[w] \in Terminated)
    /\ [][cs_pc = "returned" => results' = results]_vars

\* a returned batch of two workers that both wrote their key
C5_Witness ==
    /\ cs_pc = "returned"
    /\ Len(requests) = 2
    /\ \A w \in Workers : pc[w] = "done"
    /\ Cardinality(DOMAIN results) = 2

\* C6: a worker ends abnormally only through a fault of its own; every
\* worker without a fault records its own result; and what the map holds for
\* a URL comes from a worker of that URL, whatever happened to the others.
C6_BatchIsolation ==
    /\ \A w \in Workers : pc[w] = "crashed" => fault[w] # "none"
    /\ \A w \in Workers : pc[w] = "done" => w \in writers[url(w)]
    /\ \A u \in DOMAIN results :
           \E w \in writers[u] :
               url(w) = u /\ pc[w] = "done" /\ results[u] = ret[w]
    /\ cs_pc = "returned" =>
           \A w \in Workers :
               fault[w] = "none" =>
                   /\ pc[w] = "done"
                   /\ url(w) \in DOMAIN results
                   /\ writers[url(w)] = {w} => results[url(w)] = ret[w]

\* a returned batch where one worker's session construction failed and the
\* worker of another URL recorded its price
C6_Witness ==
    /\ cs_pc = "returned"
    /\ \E w, v \in Workers :
           /\ fault[w] \in ConstructionFaults
           /\ url(v) # url(w)
           /\ pc[v] = "done"
           /\ ret[v].kind = "float"
           /\ results[url(v)] = ret[v]

\* C7: each key of the result map is written at most once, and no two
\* workers write the same key.
C7_KeyWrittenOnce ==
    \A u \in Urls : Cardinality(writers[u]) <= 1

\* C8: every engine session that was started has been released by the time
\* its owning worker has ended.
C8_SessionReleased ==
    \A w \in Workers : pc[w] \in Terminated => driver[w] # "running"

\* C9: when concurrent_scrape returns, the map holds an entry for every
\* requested URL, and it is what that request's scrape_price produced: the
\* parsed price, or None when all attempts failed.
C9_EntryForEveryRequest ==
    cs_pc = "returned" =>
        /\ DOMAIN results = {url(w) : w \in Workers}
        /\ \A w \in Workers :
               /\ ret[w].kind \in {"float", "None"}
               /\ results[url(w)] = ret[w]

\* C10: a session construction fault of a worker is surfaced to the caller
\* of concurrent_scrape, reported for the affected request: the caller gets
\* an exception for it, or an entry for that request's URL carrying the
\* fault; and the sibling workers are not aborted.
C10_ConstructionFaultSurfaced ==
    \A w \in Workers :
        fault[w] \in ConstructionFaults =>
            /\ cs_pc = "returned" =>
                   \/ callerError = fault[w]
                   \/ /\ url(w) \in DOMAIN results
                      /\ results[url(w)].kind = "fault"
            /\ \A v \in Workers \ {w} : pc[v] = "crashed" => fault[v] # "none"

---------------------------------------------------------------------------
(* Properties of _clean_price (checked under SpecParse).                   *)

\* _clean_price has returned for the text read
Cleaned == parse.pc \in {"parsed", "recleaned"}

\* the separator characters of the matched run, in order
RunSeparators == Filter(parse.number_str, Separators)

\* what precedes and what follows the last separator of the matched run
BeforeLastSep ==
    SubSeq(parse.number_str, 1, LastSepIndex(parse.number_str) - 1)

AfterLastSep ==
    SubSeq(parse.number_str, LastSepIndex(parse.number_str) + 1,
           Len(parse.number_str))

\* C12: whatever the text, the result of _clean_price is the empty string or
\* an optional sign followed by digits with at most one decimal point, the
\* point followed by at least one digit; no comma or other character occurs.
C12_ResultIsCanonical ==
    Cleaned =>
        LET c    == parse.cleaned_price
            body == IF c # <<>> /\ c[1] \in Signs THEN Tail(c) ELSE c
        IN  \/ c = <<>>
            \/ /\ body # <<>>
               /\ \A i \in 1..Len(body) : body[i] \in Digits \cup {"."}
               /\ Cardinality({i \in 1..Len(body) : body[i] = "."}) <= 1
               /\ body[Len(body)] \in Digits

\* a text with a grouping comma and a decimal point has been cleaned to a
\* signless number with a point and no comma
C12_Witness ==
    /\ Cleaned
    /\ Contains(parse.price_text, ",")
    /\ Contains(parse.cleaned_price, ".")
    /\ ~Contains(parse.cleaned_price, ",")

\* C13 as stated: cleaning a non-empty result of _clean_price again gives a
\* string that denotes the same value.
C13_Idempotent ==
    parse.pc = "recleaned" => float(parse.recleaned) = parse.price_value

\* C13 amended: cleaning a non-empty result again gives a string of the same
\* value unless the result has exactly three digits after its decimal point;
\* in that case the second cleaning drops the point.
C13_IdempotentUnlessThreeFractionDigits ==
    parse.pc = "recleaned" =>
        LET c == parse.cleaned_price
        IN  IF \E i \in 1..Len(c) : c[i] = "." /\ Len(c) - i = 3
            THEN parse.recleaned = Drop(c, {"."})
            ELSE float(parse.recleaned) = parse.price_value

\* a result with a two-digit fraction has been cleaned again, unchanged
C13_Witness ==
    /\ parse.pc = "recleaned"
    /\ \E i \in 1..Len(parse.cleaned_price) :
           parse.cleaned_price[i] = "." /\ Len(parse.cleaned_price) - i = 2
    /\ parse.recleaned = parse.cleaned_price

\* C14 as stated: with exactly one separator in the matched run, three
\* digits after it give the digits around it joined without a point, and any
\* other number of digits after it gives a result that keeps a decimal point.
C14_ThousandsSpecialCase ==
    Cleaned /\ Len(RunSeparators) = 1 =>
        IF Len(AfterLastSep) = 3
        THEN parse.cleaned_price = BeforeLastSep \o AfterLastSep
        ELSE Contains(parse.cleaned_price, ".")

\* C14 amended: with exactly one separator in the matched run, three digits
\* after it give the digits around it joined without a point; one, two or
\* more than three digits after it give them joined by a decimal point, with
\* "0" put before the point when nothing precedes the separator; no digit
\* after it gives what precedes the separator when that holds a digit and
\* the empty string otherwise.
C14_ThousandsSpecialCaseOrDecimal ==
    Cleaned /\ Len(RunSeparators) = 1 =>
        CASE Len(AfterLastSep) = 3 ->
                 parse.cleaned_price = BeforeLastSep \o AfterLastSep
          [] Len(AfterLastSep) = 0 ->
                 parse.cleaned_price =
                     IF HasDigit(BeforeLastSep) THEN BeforeLastSep ELSE <<>>
          [] OTHER ->
                 parse.cleaned_price =
                     (IF BeforeLastSep = <<>> THEN <<"0">> ELSE BeforeLastSep)
                         \o <<".">> \o AfterLastSep

\* a run of digits, one separator and three digits has been cleaned to the
\* digits alone
C14_Witness ==
    /\ Cleaned
    /\ Len(RunSeparators) = 1
    /\ Len(AfterLastSep) = 3
    /\ HasDigit(BeforeLastSep)
    /\ parse.cleaned_price = BeforeLastSep \o AfterLastSep
    /\ ~Contains(parse.cleaned_price, ".")

\* C15 as stated: with two or more separators in the matched run the result
\* is the part before the last separator without its separators, a point,
\* and the digits after the last separator, "0." standing for an empty part
\* before the point.
C15_RightmostSeparator ==
    Cleaned /\ Len(RunSeparators) >= 2 =>
        parse.cleaned_price =
            (IF Drop(BeforeLastSep, Separators) = <<>> THEN <<"0">>
             ELSE Drop(BeforeLastSep, Separators))
                \o <<".">> \o AfterLastSep

\* C15 amended: with two or more separators in the matched run and at least
\* one digit after the last of them, the result is the part before the last
\* separator without its separators, a point, and the digits after the last
\* separator, "0." standing for an empty part before the point; with no
\* digit after the last separator the result is the part before it without
\* its separators when that holds a digit, and the empty string otherwise.
C15_RightmostSeparatorBeforeDigits ==
    Cleaned /\ Len(RunSeparators) >= 2 =>
        LET integer == Drop(BeforeLastSep, Separators)
        IN  IF AfterLastSep # <<>>
            THEN parse.cleaned_price =
                     (IF integer = <<>> THEN <<"0">> ELSE integer)
                         \o <<".">> \o AfterLastSep
            ELSE parse.cleaned_price =
                     IF HasDigit(integer) THEN integer ELSE <<>>

\* a run grouped by points with a decimal comma has been cleaned
C15_Witness ==
    /\ Cleaned
    /\ Len(RunSeparators) >= 2
    /\ parse.number_str[LastSepIndex(parse.number_str)] = ","
    /\ Contains(BeforeLastSep, ".")
    /\ Len(AfterLastSep) = 2
    /\ Contains(parse.cleaned_price, ".")

\* C17: when the text left by the removal of symbols and spaces holds a
\* hyphen, the result is the result for its first hyphen-separated piece
\* that holds a digit (the empty string when no piece does); for a range of
\* two digit strings "A-B" the result is A.
C17_RangeKeepsFirstNumber ==
    Cleaned =>
        LET r       == ApplyReplacements(Strip(parse.price_text), 1)
            n       == Len(r)
            IsPiece(i, j) ==
                /\ i = 1 \/ r[i - 1] = "-"
                /\ j = n \/ r[j + 1] = "-"
                /\ \A k \in i..j : r[k] # "-"
        IN  /\ Contains(r, "-") =>
                IF HasDigit(r)
                THEN \E i \in 1..n : \E j \in i..n :
                         /\ IsPiece(i, j)
                         /\ HasDigit(SubSeq(r, i, j))
                         /\ ~HasDigit(SubSeq(r, 1, i - 1))
                         /\ parse.cleaned_price =
                                clean_price(SubSeq(r, i, j))
                ELSE parse.cleaned_price = <<>>
            /\ \A h \in 2..(n - 1) :
                   /\ r[h] = "-"
                   /\ AllDigits(SubSeq(r, 1, h - 1))
                   /\ AllDigits(SubSeq(r, h + 1, n))
                   => parse.cleaned_price = SubSeq(r, 1, h - 1)

\* the range "100-150" has been cleaned to its lower bound
C17_Witness ==
    /\ Cleaned
    /\ parse.price_text = TextRange
    /\ parse.cleaned_price = <<"1", "0", "0">>
    /\ parse.price_value = [kind |-> "float", m |-> 100, e |-> 0]

---------------------------------------------------------------------------
(* Properties of scrape_price on unparseable text (checked under           *)
(* SpecUnparseable).                                                       *)

\* C16: for a text without a digit _clean_price returns the empty string and
\* the attempt fails; the call never raises to its caller, and once every
\* attempt has read such a text it has made all its attempts and returned
\* None.
C16_UnparseableYieldsNone ==
    \A w \in Workers :
        /\ parse.pc = "parsed"
               => parse.cleaned_price = <<>> /\ parse.price_value = ValueError
        /\ pc[w] # "raised"
        /\ CallOver(w) => ret[w] = None /\ navs[w] = retries

---------------------------------------------------------------------------
(* Properties of save_to_db (checked under SpecDb).                        *)

\* the (user_id, url) keys of the rows of a table
KeysOf(table) == {<<table[i].user_id, table[i].url>> : i \in 1..Len(table)}

\* C18: the table never holds two rows with the same (user_id, url); each
\* save_to_db call leaves the stored rows as they were and adds rows for
\* exactly the keys of its frame that were not stored, one row per key.
C18_InsertIfNew ==
    /\ [](\A i, j \in 1..Len(db.table) :
              /\ db.table[i].user_id = db.table[j].user_id
              /\ db.table[i].url = db.table[j].url
              => i = j)
    /\ [][db'.calls # db.calls =>
              /\ SubSeq(db'.table, 1, Len(db.table)) = db.table
              /\ KeysOf(db'.table) =
                     KeysOf(db.table) \cup
                     {<<db'.user_id, u>> : u \in UrlsOf(db'.dataframe)}]_vars

---------------------------------------------------------------------------
(* Properties of process_excel_file (checked under SpecBot).               *)

\* C19: for an uploaded table without one of the columns title, url and
\* xpath, no session is created, no row is scraped and nothing is saved, at
\* any time, and the handler ends right after the table is read, with the
\* format error as its only reply after the "processing" one.
C19_ValidationPrecedesWork ==
    ~({"title", "url", "xpath"} \subseteq bot.columns) =>
        /\ bot.sessions = 0
        /\ bot.scraped = 0
        /\ bot.saves = 0
        /\ bot.pc \in {"uploaded", "read", "unreadable", "rejected"}
        /\ bot.pc = "rejected" =>
               bot.replies = <<"processing", "format_error">>

\* a table with rows but without the xpath column has been rejected
C19_Witness ==
    /\ bot.pc = "rejected"
    /\ bot.columns = {"title", "url"}
    /\ bot.rows > 0
    /\ bot.replies = <<"processing", "format_error">>
    /\ bot.sessions = 0

---------------------------------------------------------------------------
(* Properties of the screenshot files (checked under SpecCapture).         *)

\* C21: the screenshots directory holds one file per failed attempt whose
\* screenshot was saved: no two such attempts, of one worker or of several,
\* wrote the same file name.
C21_OneFilePerCapture == Cardinality(capture.files) = capture.written

=============================================================================
